---- MODULE Spec2Model ----
(***************************************************************************)
(* Menu caching layer of the Little Lemon app: the SQLite item store       *)
(* (utils/database), the remote catalogue fetch with its normalization,    *)
(* and the Home screen: its load / retry passes, its filter effect and its *)
(* debounced search bar.                                                   *)
(*                                                                         *)
(*   SpecStore    : the database module driven by an arbitrary client, on  *)
(*                  an opened SQLite connection.                           *)
(*   Spec         : the load and retry passes of the Home screen: the      *)
(*                  SQLite-backed screen on top of the database module,    *)
(*                  its connection being the opened database or the        *)
(*                  module's mock fallback, and screens/Home.js, which     *)
(*                  never calls SQLite.  The user leaves the chips and the *)
(*                  search bar alone; the runs of the filter effect are    *)
(*                  followed in SpecFilter.                                *)
(*   SpecLive     : the same passes, every pending call eventually         *)
(*                  settling (weak fairness; none for the Retry button).   *)
(*   SpecQuery    : one filter request answered by filterMenuItems and by  *)
(*                  the two in-memory scans.                               *)
(*   SpecFilter   : the Home screen with a catalogue loaded: category      *)
(*                  chips, search text, filter effect.                     *)
(*   SpecDebounce : the debounced search bar against a clock.              *)
(***************************************************************************)
EXTENDS Integers, Sequences, FiniteSets, TLC

VARIABLES
    dbMode,       \* module-level `db`: "sqlite" (opened) or "mock" (fallback object)
    schema,       \* TRUE once the table `menu` exists in the database file
    menu,         \* committed rows of the table `menu`
    call,         \* SpecStore: the client's current call into the database module
    lastSave,     \* SpecStore: the last settled saveMenuItems call
    lastGet,      \* SpecStore: the result of getMenuItems since the last save
    screen,       \* Home: which Home screen runs, "database" (the SQLite-backed
                  \*       one) or "memory" (screens/Home.js, which skips SQLite)
    pc,           \* Home: the await the load / retry pass is suspended at
    fetchFrom,    \* Home: the call site of the running fetchMenuDataFromAPI
    processed,    \* Home: processedMenuItems of the running fetchMenuDataFromAPI
    menuItems,    \* Home: useState menuItems
    filteredMenuItems,    \* Home: useState filteredMenuItems
    availableCategories,  \* Home: useState availableCategories
    isLoading,    \* Home: useState isLoading
    error,        \* Home: useState error
    pass,         \* Home: what the current (or last) load / retry pass has done
    searchText,          \* Home: useState searchText
    selectedCategories,  \* Home: useState selectedCategories
    filtering,    \* Home: the runs of the filter effect awaiting filterMenuItems, oldest first
    lastFilter,   \* Home: what the filter effect run that settled last has done
    query,        \* SpecQuery: the answers to one filter request
    now,          \* SpecDebounce: the clock, in ms
    timers,       \* SpecDebounce: the pending timers of debouncedSearch
    typing        \* SpecDebounce: the calls and invocations of the current burst

storeVars == <<dbMode, schema, menu>>
clientVars == <<call, lastSave, lastGet>>
homeVars == <<screen, pc, fetchFrom, processed, menuItems, filteredMenuItems,
              availableCategories, isLoading, error, pass>>
viewVars == <<searchText, selectedCategories, filtering, lastFilter, query,
              now, timers, typing>>
vars == <<dbMode, schema, menu, call, lastSave, lastGet, screen, pc, fetchFrom, processed,
          menuItems, filteredMenuItems, availableCategories, isLoading, error, pass,
          searchText, selectedCategories, filtering, lastFilter, query,
          now, timers, typing>>

(***************************************************************************)
(* Bounds of the model.                                                    *)
(***************************************************************************)
MaxLen == 2        \* longest item list a client hands to saveMenuItems

(***************************************************************************)
(* JavaScript values.  A field the upstream record does not carry reads as *)
(* undefined; SQLite binds undefined as NULL and reads NULL back as null.  *)
(***************************************************************************)
Undefined == "<undefined>"
Null == "<null>"

Truthy(v) == v \notin {Undefined, Null, ""}

SeqsUpTo(S, n) == UNION {[1..k -> S] : k \in 0..n}

Range(s) == {s[i] : i \in 1..Len(s)}

(***************************************************************************)
(* Remote records and their normalization (fetchMenuDataFromAPI).          *)
(***************************************************************************)
ImageBase == "https://github.com/Meta-Mobile-Developer-PC/Working-With-Data-API/blob/main/images/"

RawRecords ==
    { [id |-> 7, name |-> "Greek Salad", description |-> "feta and olives",
       price |-> 1299, image |-> "greekSalad.jpg", category |-> "starters"],
      [name |-> "Lemon Cake", description |-> "", price |-> 500,
       image |-> Undefined, category |-> Undefined],
      [id |-> 7, name |-> Undefined, description |-> "no name upstream",
       price |-> 700, image |-> Undefined, category |-> ""] }

\* the callback of data.menu.map with `id` written before the spread of the
\* upstream record, so that an upstream id overrides the position
processItem_KeepsUpstreamId(item, index) ==
    [ id          |-> IF "id" \in DOMAIN item THEN item.id ELSE index + 1,
      name        |-> item.name,
      description |-> item.description,
      price       |-> item.price,
      image       |-> IF Truthy(item.image)
                      THEN ImageBase \o item.image \o "?raw=true"
                      ELSE Null,
      category    |-> IF Truthy(item.category) THEN item.category ELSE "Other" ]

\* the callback of data.menu.map without the `|| 'Other'` default
processItem_KeepsCategory(item, index) ==
    [ id          |-> index + 1,
      name        |-> item.name,
      description |-> item.description,
      price       |-> item.price,
      image       |-> IF Truthy(item.image)
                      THEN ImageBase \o item.image \o "?raw=true"
                      ELSE Null,
      category    |-> item.category ]

\* the callback of data.menu.map: `index` is the 0-based array position
processItem(item, index) ==
    [ id          |-> index + 1,
      name        |-> item.name,
      description |-> item.description,
      price       |-> item.price,
      image       |-> IF Truthy(item.image)
                      THEN ImageBase \o item.image \o "?raw=true"
                      ELSE Null,
      category    |-> IF Truthy(item.category) THEN item.category ELSE "Other" ]

\* data.menu.map with a callback that ignores its second parameter
processedMenuItems_NoIndex(rawMenu) ==
    [i \in 1..Len(rawMenu) |-> processItem(rawMenu[i], 0)]

processedMenuItems(rawMenu) ==
    [i \in 1..Len(rawMenu) |-> processItem(rawMenu[i], i - 1)]

(***************************************************************************)
(* The table `menu` and the statements run against it.                     *)
(***************************************************************************)
Bind(v) == IF v = Undefined THEN Null ELSE v

\* Row with the image column left out of the parameter list
Row_DropsImage(item) ==
    [ id          |-> item.id,
      name        |-> Bind(item.name),
      description |-> Bind(item.description),
      price       |-> item.price,
      image       |-> Null,
      category    |-> Bind(item.category) ]

\* the six values bound to the INSERT statement, as the row they make
Row(item) ==
    [ id          |-> item.id,
      name        |-> Bind(item.name),
      description |-> Bind(item.description),
      price       |-> item.price,
      image       |-> Bind(item.image),
      category    |-> Bind(item.category) ]

\* id INTEGER PRIMARY KEY, name TEXT NOT NULL
InsertAllowed(table, item) ==
    /\ Row(item).name # Null
    /\ \A r \in table : r.id # item.id

RECURSIVE SortById(_)
SortById(rows) ==
    IF rows = {} THEN <<>>
    ELSE LET first == CHOOSE r \in rows : \A q \in rows : r.id <= q.id
         IN  <<first>> \o SortById(rows \ {first})

\* outcomes of one transaction that the environment decides: whether the
\* transaction itself fails ("begin": before any statement, "commit": at the
\* end) and which statements fail for a reason other than a constraint
\* (statement 0 is the first executeSql of the transaction)
TxOutcomes(n) == [tx : {"ok", "begin", "commit"}, failing : SUBSET (0..n)]

\* the single statement of a read transaction runs and succeeds; its success
\* callback settles the promise before the transaction ends
StatementRuns(hasTable, out) ==
    out.tx # "begin" /\ hasTable /\ 0 \notin out.failing

\* the INSERTs of saveMenuItems from position i on; every statement error
\* callback rejects and returns false, so the transaction goes on
RECURSIVE RunInserts(_, _, _, _, _)
RunInserts(table, items, i, failing, failed) ==
    IF i > Len(items) THEN [table |-> table, failed |-> failed]
    ELSE IF i \notin failing /\ InsertAllowed(table, items[i])
         THEN RunInserts(table \cup {Row(items[i])}, items, i + 1, failing, failed)
         ELSE RunInserts(table, items, i + 1, failing, TRUE)

\* saveMenuItems without its DELETE statement
saveMenuItems_NoDelete(mode, hasTable, table, items, out) ==
    IF mode = "mock"
    THEN [menu |-> table, settled |-> "resolved"]
    ELSE IF out.tx = "begin"
    THEN [menu |-> table, settled |-> "rejected"]
    ELSE LET run == IF hasTable
                    THEN RunInserts(table, items, 1, out.failing, FALSE)
                    ELSE [table |-> table, failed |-> TRUE]
         IN  IF out.tx = "commit"
             THEN [menu |-> table, settled |-> "rejected"]
             ELSE [menu    |-> run.table,
                   settled |-> IF run.failed THEN "rejected" ELSE "resolved"]

\* saveMenuItems whose INSERT error callbacks do not reject
saveMenuItems_InsertErrorsIgnored(mode, hasTable, table, items, out) ==
    IF mode = "mock"
    THEN [menu |-> table, settled |-> "resolved"]
    ELSE IF out.tx = "begin"
    THEN [menu |-> table, settled |-> "rejected"]
    ELSE LET deleteOk == hasTable /\ 0 \notin out.failing
             cleared  == IF deleteOk THEN {} ELSE table
             run      == IF hasTable
                         THEN RunInserts(cleared, items, 1, out.failing, FALSE)
                         ELSE [table |-> table, failed |-> FALSE]
         IN  IF out.tx = "commit"
             THEN [menu |-> table, settled |-> "rejected"]
             ELSE [menu    |-> run.table,
                   settled |-> IF deleteOk THEN "resolved" ELSE "rejected"]

\* saveMenuItems(menuItems) on connection `mode`: the rows committed and how
\* the promise settles
saveMenuItems(mode, hasTable, table, items, out) ==
    IF mode = "mock"
    THEN [menu |-> table, settled |-> "resolved"]
    ELSE IF out.tx = "begin"
    THEN [menu |-> table, settled |-> "rejected"]
    ELSE LET deleteOk == hasTable /\ 0 \notin out.failing
             cleared  == IF deleteOk THEN {} ELSE table
             run      == IF hasTable
                         THEN RunInserts(cleared, items, 1, out.failing, ~deleteOk)
                         ELSE [table |-> table, failed |-> TRUE]
         IN  IF out.tx = "commit"
             THEN [menu |-> table, settled |-> "rejected"]
             ELSE [menu    |-> run.table,
                   settled |-> IF run.failed THEN "rejected" ELSE "resolved"]

\* getMenuItems(): SELECT * FROM menu (rows in rowid order, the rowid being id)
getMenuItems(mode, hasTable, table, out) ==
    IF mode = "mock"
    THEN [settled |-> "resolved", rows |-> <<>>]
    ELSE IF StatementRuns(hasTable, out)
    THEN [settled |-> "resolved", rows |-> SortById(table)]
    ELSE [settled |-> "rejected", rows |-> <<>>]

\* initDatabase(): CREATE TABLE IF NOT EXISTS menu; the statement's success
\* callback resolves, the table stays only if the transaction commits
initDatabase(mode, hasTable, out) ==
    IF mode = "mock"
    THEN [schema |-> hasTable, settled |-> "resolved"]
    ELSE IF out.tx # "begin" /\ 0 \notin out.failing
    THEN [schema |-> hasTable \/ out.tx = "ok", settled |-> "resolved"]
    ELSE [schema |-> hasTable, settled |-> "rejected"]

\* hasMenuData(): SELECT COUNT(*); on the mock connection rows._array is
\* empty, rows._array[0].count throws and the mock transaction rejects
hasMenuData(mode, hasTable, table, out) ==
    IF mode = "mock"
    THEN [settled |-> "rejected", value |-> FALSE]
    ELSE IF StatementRuns(hasTable, out)
    THEN [settled |-> "resolved", value |-> Cardinality(table) > 0]
    ELSE [settled |-> "rejected", value |-> FALSE]

\* [...new Set(list)]: the first occurrence of every value, in order
RECURSIVE Unique(_)
Unique(list) ==
    IF list = <<>> THEN <<>>
    ELSE LET init == Unique(SubSeq(list, 1, Len(list) - 1))
             last == list[Len(list)]
         IN  IF last \in Range(init) THEN init ELSE Append(init, last)

\* getCategories() with a SELECT that lacks DISTINCT
getCategories_NoDistinct(mode, hasTable, table, out) ==
    IF mode = "mock"
    THEN [settled |-> "resolved", categories |-> <<>>]
    ELSE IF StatementRuns(hasTable, out)
    THEN [settled |-> "resolved",
          categories |-> LET rows == SortById({r \in table : r.category # Null})
                         IN  [i \in 1..Len(rows) |-> rows[i].category]]
    ELSE [settled |-> "rejected", categories |-> <<>>]

\* getCategories(): SELECT DISTINCT category FROM menu WHERE category IS NOT NULL
getCategories(mode, hasTable, table, out) ==
    IF mode = "mock"
    THEN [settled |-> "resolved", categories |-> <<>>]
    ELSE IF StatementRuns(hasTable, out)
    THEN [settled |-> "resolved",
          categories |-> LET rows == SortById({r \in table : r.category # Null})
                         IN  Unique([i \in 1..Len(rows) |-> rows[i].category])]
    ELSE [settled |-> "rejected", categories |-> <<>>]

(***************************************************************************)
(* Text: JavaScript string methods and the SQLite operators on TEXT.       *)
(***************************************************************************)
UpperCase == "ABCDEFGHIJKLMNOPQRSTUVWXYZ"
LowerCase == "abcdefghijklmnopqrstuvwxyz"

\* the characters of the model's texts in the order of their code units
CodeOrder == " %ABCDEFGHIJKLMNOPQRSTUVWXYZ_abcdefghijklmnopqrstuvwxyz"

CharAt(s, i) == SubSeq(s, i, i)

Rest(s) == SubSeq(s, 2, Len(s))

\* the lower-case letter of every upper-case letter
LowerOf ==
    LET at == [i \in 1..Len(UpperCase) |-> CharAt(UpperCase, i)]
    IN  [c \in Range(at) |->
            CharAt(LowerCase, CHOOSE i \in 1..Len(UpperCase) : at[i] = c)]

LowerChar(c) == IF c \in DOMAIN LowerOf THEN LowerOf[c] ELSE c

\* String.prototype.toLowerCase
RECURSIVE toLowerCase(_)
toLowerCase(s) ==
    IF s = "" THEN "" ELSE LowerChar(CharAt(s, 1)) \o toLowerCase(Rest(s))

\* String.prototype.includes
includes(s, searchString) ==
    \E i \in 0..(Len(s) - Len(searchString)) :
        SubSeq(s, i + 1, i + Len(searchString)) = searchString

\* String.prototype.trim
RECURSIVE trim(_)
trim(s) ==
    IF s = "" THEN ""
    ELSE IF CharAt(s, 1) = " " THEN trim(Rest(s))
    ELSE IF CharAt(s, Len(s)) = " " THEN trim(SubSeq(s, 1, Len(s) - 1))
    ELSE s

\* SQLite `s LIKE pattern`: % matches any run of characters, _ any one
\* character, letters match without regard to case
RECURSIVE Like(_, _)
Like(s, pattern) ==
    IF pattern = "" THEN s = ""
    ELSE IF CharAt(pattern, 1) = "%"
    THEN Like(s, Rest(pattern)) \/ (s # "" /\ Like(Rest(s), pattern))
    ELSE /\ s # ""
         /\ \/ CharAt(pattern, 1) = "_"
            \/ LowerChar(CharAt(pattern, 1)) = LowerChar(CharAt(s, 1))
         /\ Like(Rest(s), Rest(pattern))

Code(c) == CHOOSE i \in 1..Len(CodeOrder) : CharAt(CodeOrder, i) = c

\* a < b in the BINARY collation of ORDER BY
RECURSIVE Before(_, _)
Before(a, b) ==
    IF b = "" THEN FALSE
    ELSE IF a = "" THEN TRUE
    ELSE IF CharAt(a, 1) = CharAt(b, 1) THEN Before(Rest(a), Rest(b))
    ELSE Code(CharAt(a, 1)) < Code(CharAt(b, 1))

\* ORDER BY name: rows of equal name come out in rowid order
RECURSIVE SortByName(_)
SortByName(rows) ==
    IF rows = {} THEN <<>>
    ELSE LET first == CHOOSE r \in rows :
                        \A q \in rows \ {r} :
                            \/ Before(r.name, q.name)
                            \/ (r.name = q.name /\ r.id < q.id)
         IN  <<first>> \o SortByName(rows \ {first})

\* filterMenuItems(categories, searchText): SELECT * FROM menu
\* [WHERE category IN (..) AND name LIKE '%searchText%'] ORDER BY name
filterMenuItems(mode, hasTable, table, categories, text, out) ==
    IF mode = "mock"
    THEN [settled |-> "resolved", rows |-> <<>>]
    ELSE IF StatementRuns(hasTable, out)
    THEN [settled |-> "resolved",
          rows |-> SortByName({r \in table :
                      /\ Len(categories) > 0 =>
                            (r.category # Null /\ r.category \in Range(categories))
                      /\ trim(text) # "" =>
                            (r.name # Null /\ Like(r.name, "%" \o text \o "%"))})]
    ELSE [settled |-> "rejected", rows |-> <<>>]

\* does item.name.toLowerCase() or item.description.toLowerCase() of the
\* fallback's search callback throw on this item
SearchThrows(item, text) ==
    \/ item.name \in {Undefined, Null}
    \/ /\ ~includes(toLowerCase(item.name), toLowerCase(text))
       /\ item.description \in {Undefined, Null}

\* the in-memory fallback in the catch (dbError) of the filter effect
fallbackFilter(items, selected, text) ==
    LET Found(item) ==
            \/ includes(toLowerCase(item.name), toLowerCase(text))
            \/ includes(toLowerCase(item.description), toLowerCase(text))
        InCategory(item) == Truthy(item.category) /\ item.category \in Range(selected)
        threw == text # "" /\ \E i \in 1..Len(items) : SearchThrows(items[i], text)
        searched == IF text # "" THEN SelectSeq(items, Found) ELSE items
    IN  IF threw
        THEN [threw |-> TRUE, rows |-> <<>>]
        ELSE [threw |-> FALSE,
              rows  |-> IF Len(selected) > 0 /\ "All" \notin Range(selected)
                        THEN SelectSeq(searched, InCategory)
                        ELSE searched]

\* filterItems of screens/Home.js: the in-memory scan with guarded fields
filterItems(items, selected, text) ==
    LET Found(item) ==
            \/ Truthy(item.name) /\ includes(toLowerCase(item.name), toLowerCase(text))
            \/ Truthy(item.description)
                   /\ includes(toLowerCase(item.description), toLowerCase(text))
        InCategory(item) == Truthy(item.category) /\ item.category \in Range(selected)
        searched == IF text # "" THEN SelectSeq(items, Found) ELSE items
    IN  IF Len(selected) > 0 /\ "All" \notin Range(selected)
        THEN SelectSeq(searched, InCategory)
        ELSE searched

(***************************************************************************)
(* The Home screen: the mount effect initializeAndLoadData, the remote     *)
(* fetch fetchMenuDataFromAPI and the retry button.                        *)
(***************************************************************************)
NoCall == [fn |-> "none", items |-> <<>>]
NoSave == [done |-> FALSE, items |-> <<>>, settled |-> "none", before |-> {},
           clean |-> FALSE]
NoGet == [done |-> FALSE, settled |-> "none", rows |-> <<>>]

\* no run of the filter effect has settled / no request has been answered
NoAnswer == [settled |-> "none", rows |-> <<>>]
NoFilter == [settled |-> "none", selected |-> <<>>, categories |-> <<>>,
             text |-> "", items |-> <<>>]
NoQuery == [store |-> NoAnswer, fallback |-> NoAnswer, scan |-> NoAnswer]

\* nothing typed yet
NoTyping ==
    [ calls |-> 0, since |-> 0, invocations |-> 0,
      lastCall |-> [at |-> 0, args |-> ""],
      lastRun |-> [at |-> 0, args |-> "", by |-> "none"] ]

LoadError == "Failed to load menu data. Please try again."

Payloads == SeqsUpTo(RawRecords, MaxLen)

\* what the request of fetchMenuDataFromAPI can come back with: a transport
\* failure, a non-success status, a body that is not JSON, a document without
\* `menu`, or a document with a menu array
Responses ==
    {[kind |-> k, menu |-> <<>>] : k \in {"network", "http", "json", "nomenu"}}
        \cup {[kind |-> "ok", menu |-> p] : p \in Payloads}

Rows(items) == {Row(items[i]) : i \in 1..Len(items)}

NoFailure == [tx |-> "ok", failing |-> {}]

\* tables an earlier run of the app can have left in the database file: what
\* a save of a fetched menu commits
StoredTables ==
    {saveMenuItems("sqlite", TRUE, {}, processedMenuItems(p), NoFailure).menu :
        p \in Payloads}

NoPass ==
    [ kind |-> "none", done |-> FALSE, storeAtStart |-> {},
      cached |-> <<>>, degraded |-> "no",
      fetches |-> 0, firstFetch |-> "none", lastFetch |-> "none",
      fetched |-> <<>>, saves |-> 0, saveSettled |-> "none", threw |-> FALSE,
      raw |-> <<>>, inFlight |-> 0, savesInFlight |-> 0,
      categoriesFailed |-> FALSE ]

InitHome ==
    /\ pc = "mount"
    /\ fetchFrom = "none"
    /\ processed = <<>>
    /\ menuItems = <<>>
    /\ filteredMenuItems = <<>>
    /\ availableCategories = <<>>
    /\ isLoading = TRUE
    /\ error = Null
    /\ pass = NoPass
    /\ searchText = ""
    /\ selectedCategories = <<>>
    /\ filtering = <<>>
    /\ lastFilter = NoFilter
    /\ query = NoQuery
    /\ now = 0
    /\ timers = {}
    /\ typing = NoTyping

Init ==
    /\ dbMode \in {"sqlite", "mock"}
    /\ schema \in BOOLEAN
    /\ menu \in StoredTables
    /\ (dbMode = "mock" \/ ~schema) => menu = {}
    /\ dbMode = "mock" => ~schema
    /\ screen \in {"database", "memory"}
    /\ screen = "memory" => dbMode = "sqlite"
    /\ call = NoCall
    /\ lastSave = NoSave
    /\ lastGet = NoGet
    /\ InitHome

\* a call of fetchMenuDataFromAPI from call site `from` is issued
StartFetch(from, p) ==
    /\ pc' = "fetch"
    /\ fetchFrom' = from
    /\ pass' = [p EXCEPT !.fetches = @ + 1]

\* a pass without the `finally` that ends the loading state
Finish_KeepsLoading(p) ==
    /\ UNCHANGED isLoading
    /\ pc' = "idle"
    /\ fetchFrom' = "none"
    /\ pass' = [p EXCEPT !.done = TRUE, !.inFlight = @ - 1]

\* the `finally` of the running pass
Finish(p) ==
    /\ isLoading' = FALSE
    /\ pc' = "idle"
    /\ fetchFrom' = "none"
    /\ pass' = [p EXCEPT !.done = TRUE, !.inFlight = @ - 1]

\* initializeAndLoadData up to its first await
Mount ==
    /\ screen = "database"
    /\ pc = "mount"
    /\ isLoading' = TRUE
    /\ error' = Null
    /\ pc' = "initDatabase"
    /\ pass' = [NoPass EXCEPT !.kind = "load", !.storeAtStart = menu,
                              !.inFlight = pass.inFlight + 1]
    /\ selectedCategories' = <<"All">>
    /\ UNCHANGED <<searchText, filtering, lastFilter, query, now, timers, typing>>
    /\ UNCHANGED <<screen, storeVars, clientVars, fetchFrom, processed, menuItems,
                   filteredMenuItems, availableCategories>>

\* loadData of screens/Home.js up to its await: no SQLite call, the fetch at once
LoadData ==
    /\ screen = "memory"
    /\ pc = "mount"
    /\ isLoading' = TRUE
    /\ error' = Null
    /\ StartFetch("loadData", [NoPass EXCEPT !.kind = "load", !.storeAtStart = menu,
                                             !.inFlight = pass.inFlight + 1])
    /\ selectedCategories' = <<"All">>
    /\ UNCHANGED <<searchText, filtering, lastFilter, query, now, timers, typing>>
    /\ UNCHANGED <<screen, storeVars, clientVars, processed, menuItems,
                   filteredMenuItems, availableCategories>>

\* initializeAndLoadData with a failure of initDatabase ending the pass
SettleInitDatabase_Fatal(out) ==
    /\ pc = "initDatabase"
    /\ LET r == initDatabase(dbMode, schema, out)
       IN  /\ schema' = r.schema
           /\ IF r.settled = "resolved"
              THEN /\ pc' = "hasMenuData"
                   /\ UNCHANGED <<fetchFrom, pass, isLoading, error>>
              ELSE /\ error' = LoadError
                   /\ Finish([pass EXCEPT !.degraded = "initDatabase", !.threw = TRUE])
    /\ UNCHANGED <<screen, dbMode, menu, clientVars, viewVars, processed, menuItems, filteredMenuItems,
                   availableCategories>>

\* await initDatabase()
SettleInitDatabase(out) ==
    /\ pc = "initDatabase"
    /\ LET r == initDatabase(dbMode, schema, out)
       IN  /\ schema' = r.schema
           /\ IF r.settled = "resolved"
              THEN /\ pc' = "hasMenuData"
                   /\ UNCHANGED <<fetchFrom, pass>>
              ELSE StartFetch("catch", [pass EXCEPT !.degraded = "initDatabase"])
    /\ UNCHANGED <<screen, dbMode, menu, clientVars, viewVars, processed, menuItems, filteredMenuItems,
                   availableCategories, isLoading, error>>

\* initializeAndLoadData ending the load, without a fetch, when the table is
\* empty
SettleHasMenuData_NoFetch(out) ==
    /\ pc = "hasMenuData"
    /\ LET r == hasMenuData(dbMode, schema, menu, out)
       IN  IF r.settled = "rejected"
           THEN /\ StartFetch("catch", [pass EXCEPT !.degraded = "hasMenuData"])
                /\ UNCHANGED isLoading
           ELSE IF r.value
           THEN /\ pc' = "getMenuItems"
                /\ UNCHANGED <<fetchFrom, pass, isLoading>>
           ELSE Finish(pass)
    /\ UNCHANGED <<screen, storeVars, clientVars, viewVars, processed, menuItems, filteredMenuItems,
                   availableCategories, error>>

\* await hasMenuData()
SettleHasMenuData(out) ==
    /\ pc = "hasMenuData"
    /\ LET r == hasMenuData(dbMode, schema, menu, out)
       IN  IF r.settled = "rejected"
           THEN StartFetch("catch", [pass EXCEPT !.degraded = "hasMenuData"])
           ELSE IF r.value
           THEN /\ pc' = "getMenuItems"
                /\ UNCHANGED <<fetchFrom, pass>>
           ELSE StartFetch("try", pass)
    /\ UNCHANGED <<screen, storeVars, clientVars, viewVars, processed, menuItems, filteredMenuItems,
                   availableCategories, isLoading, error>>

\* await getMenuItems()
SettleGetMenuItems(out) ==
    /\ pc = "getMenuItems"
    /\ LET r == getMenuItems(dbMode, schema, menu, out)
       IN  IF r.settled = "rejected"
           THEN /\ StartFetch("catch", [pass EXCEPT !.degraded = "getMenuItems"])
                /\ UNCHANGED <<menuItems, filteredMenuItems>>
           ELSE IF Len(r.rows) > 0
           THEN /\ menuItems' = r.rows
                /\ filteredMenuItems' = r.rows
                /\ pc' = "getCategories"
                /\ pass' = [pass EXCEPT !.cached = r.rows]
                /\ UNCHANGED fetchFrom
           ELSE /\ StartFetch("try", [pass EXCEPT !.degraded = "emptyList"])
                /\ UNCHANGED <<menuItems, filteredMenuItems>>
    /\ UNCHANGED <<screen, storeVars, clientVars, viewVars, processed, availableCategories,
                   isLoading, error>>

\* await getCategories()
SettleGetCategories(out) ==
    /\ pc = "getCategories"
    /\ LET r == getCategories(dbMode, schema, menu, out)
       IN  IF r.settled = "resolved"
           THEN /\ availableCategories' = <<"All">> \o r.categories
                /\ Finish(pass)
           ELSE /\ StartFetch("catch", [pass EXCEPT !.categoriesFailed = TRUE])
                /\ UNCHANGED <<availableCategories, isLoading>>
    /\ UNCHANGED <<screen, storeVars, clientVars, viewVars, processed, menuItems, filteredMenuItems,
                   error>>

\* a failing fetchMenuDataFromAPI that empties the list on screen
FetchFails_ClearsList(resp) ==
    /\ pc = "fetch"
    /\ resp.kind # "ok"
    /\ error' = LoadError
    /\ menuItems' = <<>>
    /\ filteredMenuItems' = <<>>
    /\ LET p == [pass EXCEPT !.lastFetch = "failed",
                             !.firstFetch = IF @ = "none" THEN "failed" ELSE @]
       IN  IF fetchFrom = "try"
           THEN /\ StartFetch("catch", p)
                /\ UNCHANGED isLoading
           ELSE Finish([p EXCEPT !.threw = (fetchFrom \in {"catch", "loadData"})])
    /\ UNCHANGED <<screen, storeVars, clientVars, viewVars, processed,
                   availableCategories>>

\* the request of fetchMenuDataFromAPI fails, or answers without a menu:
\* setError, re-throw to the call site
FetchFails(resp) ==
    /\ pc = "fetch"
    /\ resp.kind # "ok"
    /\ error' = LoadError
    /\ LET p == [pass EXCEPT !.lastFetch = "failed",
                             !.firstFetch = IF @ = "none" THEN "failed" ELSE @]
       IN  IF fetchFrom = "try"
           THEN /\ StartFetch("catch", p)
                /\ UNCHANGED isLoading
           ELSE Finish([p EXCEPT !.threw = (fetchFrom \in {"catch", "loadData"})])
    /\ UNCHANGED <<screen, storeVars, clientVars, viewVars, processed, menuItems, filteredMenuItems,
                   availableCategories>>

\* screens/Home.js: the request answers with a menu: normalize it and update
\* the state, no SQLite call
FetchSucceedsInMemory(resp) ==
    /\ screen = "memory"
    /\ pc = "fetch"
    /\ resp.kind = "ok"
    /\ LET items == processedMenuItems(resp.menu)
       IN  /\ menuItems' = items
           /\ filteredMenuItems' = items
           /\ availableCategories' =
                  <<"All">> \o Unique([i \in 1..Len(items) |-> items[i].category])
           /\ Finish([pass EXCEPT !.lastFetch = "ok",
                                  !.firstFetch = IF @ = "none" THEN "ok" ELSE @,
                                  !.fetched = items,
                                  !.raw = resp.menu])
    /\ UNCHANGED <<screen, storeVars, clientVars, viewVars, processed, error>>

\* the request answers with a menu: normalize it, then await saveMenuItems
FetchSucceeds(resp) ==
    /\ screen = "database"
    /\ pc = "fetch"
    /\ resp.kind = "ok"
    /\ processed' = processedMenuItems(resp.menu)
    /\ pc' = "saveMenuItems"
    /\ pass' = [pass EXCEPT !.lastFetch = "ok",
                            !.firstFetch = IF @ = "none" THEN "ok" ELSE @,
                            !.fetched = processedMenuItems(resp.menu),
                            !.raw = resp.menu,
                            !.saves = @ + 1,
                            !.savesInFlight = @ + 1]
    /\ UNCHANGED <<screen, storeVars, clientVars, viewVars, fetchFrom, menuItems, filteredMenuItems,
                   availableCategories, isLoading, error>>

\* fetchMenuDataFromAPI without the try / catch around saveMenuItems
SettleSaveMenuItems_Propagates(out) ==
    /\ pc = "saveMenuItems"
    /\ out.failing \subseteq 0..Len(processed)
    /\ LET r == saveMenuItems(dbMode, schema, menu, processed, out)
       IN  /\ menu' = r.menu
           /\ Finish([pass EXCEPT !.saveSettled = r.settled,
                                  !.savesInFlight = @ - 1,
                                  !.threw = (r.settled = "rejected")])
           /\ IF r.settled = "resolved"
              THEN /\ menuItems' = processed
                   /\ filteredMenuItems' = processed
                   /\ availableCategories' =
                          <<"All">> \o Unique([i \in 1..Len(processed) |->
                                                  processed[i].category])
                   /\ UNCHANGED error
              ELSE /\ error' = LoadError
                   /\ UNCHANGED <<menuItems, filteredMenuItems, availableCategories>>
    /\ processed' = <<>>
    /\ UNCHANGED <<screen, dbMode, schema, clientVars, viewVars>>

\* await saveMenuItems(processedMenuItems), its rejection caught and logged;
\* then the state update, the return to the call site and its `finally`
SettleSaveMenuItems(out) ==
    /\ pc = "saveMenuItems"
    /\ out.failing \subseteq 0..Len(processed)
    /\ LET r == saveMenuItems(dbMode, schema, menu, processed, out)
       IN  /\ menu' = r.menu
           /\ Finish([pass EXCEPT !.saveSettled = r.settled, !.savesInFlight = @ - 1])
    /\ menuItems' = processed
    /\ filteredMenuItems' = processed
    /\ availableCategories' =
           <<"All">> \o Unique([i \in 1..Len(processed) |-> processed[i].category])
    /\ processed' = <<>>
    /\ UNCHANGED <<screen, dbMode, schema, clientVars, viewVars, error>>

\* retryFetchData behind a Retry button that is rendered whatever the state
Retry_AlwaysRendered ==
    /\ pc # "mount"
    /\ isLoading' = TRUE
    /\ pc' = "fetch"
    /\ fetchFrom' = "retry"
    /\ pass' = [NoPass EXCEPT !.kind = "retry", !.storeAtStart = menu, !.fetches = 1,
                              !.inFlight = pass.inFlight + 1]
    /\ UNCHANGED <<screen, storeVars, clientVars, viewVars, processed, menuItems,
                   filteredMenuItems, availableCategories, error>>

\* the Retry button (rendered when not loading and error is set): retryFetchData
Retry ==
    /\ ~isLoading
    /\ error # Null
    /\ isLoading' = TRUE
    /\ pc' = "fetch"
    /\ fetchFrom' = "retry"
    /\ pass' = [NoPass EXCEPT !.kind = "retry", !.storeAtStart = menu, !.fetches = 1,
                              !.inFlight = pass.inFlight + 1]
    /\ UNCHANGED <<screen, storeVars, clientVars, viewVars, processed, menuItems, filteredMenuItems,
                   availableCategories, error>>

Next ==
    \/ Mount
    \/ LoadData
    \/ \E out \in TxOutcomes(0) : SettleInitDatabase(out)
    \/ \E out \in TxOutcomes(0) : SettleHasMenuData(out)
    \/ \E out \in TxOutcomes(0) : SettleGetMenuItems(out)
    \/ \E out \in TxOutcomes(0) : SettleGetCategories(out)
    \/ \E resp \in Responses : FetchFails(resp)
    \/ \E resp \in Responses : FetchSucceeds(resp)
    \/ \E resp \in Responses : FetchSucceedsInMemory(resp)
    \/ \E out \in TxOutcomes(MaxLen) : SettleSaveMenuItems(out)
    \/ Retry

Spec == Init /\ [][Next]_vars

\* the answers of the request in the runs that are checked for termination:
\* the failures, and the menus made of records that carry an upstream id
LiveResponses ==
    {r \in Responses : \A i \in 1..Len(r.menu) : "id" \in DOMAIN r.menu[i]}

\* the steps the runtime takes by itself: the mount effect runs, and a
\* pending storage or network call settles
Settles ==
    \/ Mount
    \/ LoadData
    \/ \E out \in TxOutcomes(0) : SettleInitDatabase(out)
    \/ \E out \in TxOutcomes(0) : SettleHasMenuData(out)
    \/ \E out \in TxOutcomes(0) : SettleGetMenuItems(out)
    \/ \E out \in TxOutcomes(0) : SettleGetCategories(out)
    \/ \E resp \in LiveResponses : FetchFails(resp)
    \/ \E resp \in LiveResponses : FetchSucceeds(resp)
    \/ \E resp \in LiveResponses : FetchSucceedsInMemory(resp)
    \/ \E out \in TxOutcomes(MaxLen) : SettleSaveMenuItems(out)

\* the press of Retry is the user's: it may never come
NextLive ==
    \/ Settles
    \/ Retry

\* the screen under the assumption that every call eventually settles
SpecLive == Init /\ [][NextLive]_vars /\ WF_vars(Settles)

(***************************************************************************)
(* SpecStore: a client of the database module.                             *)
(***************************************************************************)
StoreItems ==
    {processItem(r, k) : r \in RawRecords, k \in {0, 1}}

StoreLists == SeqsUpTo(StoreItems, MaxLen)

InitStore ==
    /\ dbMode = "sqlite"
    /\ schema = TRUE
    /\ menu = {}
    /\ call = NoCall
    /\ lastSave = NoSave
    /\ lastGet = NoGet
    /\ screen = "database"
    /\ InitHome

CallSave(items) ==
    /\ call.fn = "none"
    /\ call' = [fn |-> "saveMenuItems", items |-> items]
    /\ lastSave' = NoSave
    /\ lastGet' = NoGet
    /\ UNCHANGED <<storeVars, homeVars, viewVars>>

SettleSave(out) ==
    /\ call.fn = "saveMenuItems"
    /\ out.failing \subseteq 0..Len(call.items)
    /\ LET r == saveMenuItems(dbMode, schema, menu, call.items, out)
       IN  /\ menu' = r.menu
           /\ lastSave' = [done |-> TRUE, items |-> call.items,
                           settled |-> r.settled, before |-> menu,
                           clean |-> (out = NoFailure)]
    /\ call' = NoCall
    /\ UNCHANGED <<dbMode, schema, lastGet, homeVars, viewVars>>

CallGet ==
    /\ call.fn = "none"
    /\ lastSave.done
    /\ ~lastGet.done
    /\ call' = [fn |-> "getMenuItems", items |-> <<>>]
    /\ UNCHANGED <<storeVars, lastSave, lastGet, homeVars, viewVars>>

SettleGet(out) ==
    /\ call.fn = "getMenuItems"
    /\ LET r == getMenuItems(dbMode, schema, menu, out)
       IN  lastGet' = [done |-> TRUE, settled |-> r.settled, rows |-> r.rows]
    /\ call' = NoCall
    /\ UNCHANGED <<storeVars, lastSave, homeVars, viewVars>>

NextStore ==
    \/ \E items \in StoreLists : CallSave(items)
    \/ \E out \in TxOutcomes(MaxLen) : SettleSave(out)
    \/ CallGet
    \/ \E out \in TxOutcomes(0) : SettleGet(out)

SpecStore == InitStore /\ [][NextStore]_vars

(***************************************************************************)
(* SpecQuery: one filter request answered three ways, over a catalogue     *)
(* that the store holds and the screen has read back from it: by           *)
(* filterMenuItems, by the fallback of the filter effect, and by the       *)
(* filterItems of screens/Home.js.                                         *)
(***************************************************************************)
\* the categories of the normalized catalogue
Categories == {processItem(r, 0).category : r \in RawRecords}

\* values of selectedCategories: the initial [], ['All'], and the selections
\* toggleCategory builds from the chips
Selections ==
    {<<>>, <<"All">>}
        \cup {s \in SeqsUpTo(Categories, Cardinality(Categories)) :
                /\ s # <<>>
                /\ \A i, j \in 1..Len(s) : s[i] = s[j] => i = j}

\* what the user can have typed into the search bar: nothing, a blank, part
\* of a name in another case, a word of a description, a LIKE wildcard, a
\* text no dish carries
SearchTexts == {"", " ", "cake", "feta", "_", "zz"}

\* the selection handed on as it is
CategoriesArgument_PassThrough(selected) == selected

\* the first argument of the effect's call of filterMenuItems
CategoriesArgument(selected) ==
    IF "All" \in Range(selected) THEN <<>> ELSE selected

InitQuery ==
    /\ dbMode = "sqlite"
    /\ schema = TRUE
    /\ menu \in StoredTables
    /\ call = NoCall
    /\ lastSave = NoSave
    /\ lastGet = NoGet
    /\ screen = "database"
    /\ pc = "idle"
    /\ fetchFrom = "none"
    /\ processed = <<>>
    /\ menuItems = getMenuItems(dbMode, schema, menu, NoFailure).rows
    /\ filteredMenuItems = menuItems
    /\ availableCategories = getCategories(dbMode, schema, menu, NoFailure).categories
    /\ isLoading = FALSE
    /\ error = Null
    /\ pass = NoPass
    /\ searchText \in SearchTexts
    /\ selectedCategories \in Selections
    /\ filtering = <<>>
    /\ lastFilter = NoFilter
    /\ query = NoQuery
    /\ now = 0
    /\ timers = {}
    /\ typing = NoTyping

QueryStore(out) ==
    /\ query.store.settled = "none"
    /\ query' = [query EXCEPT !.store =
                    filterMenuItems(dbMode, schema, menu,
                                    CategoriesArgument(selectedCategories),
                                    searchText, out)]
    /\ UNCHANGED <<storeVars, clientVars, homeVars, searchText, selectedCategories,
                   filtering, lastFilter, now, timers, typing>>

QueryFallback ==
    /\ query.fallback.settled = "none"
    /\ LET r == fallbackFilter(menuItems, selectedCategories, searchText)
       IN  query' = [query EXCEPT !.fallback =
                        [settled |-> IF r.threw THEN "threw" ELSE "returned",
                         rows |-> r.rows]]
    /\ UNCHANGED <<storeVars, clientVars, homeVars, searchText, selectedCategories,
                   filtering, lastFilter, now, timers, typing>>

QueryFilterItems ==
    /\ query.scan.settled = "none"
    /\ query' = [query EXCEPT !.scan =
                    [settled |-> "returned",
                     rows |-> filterItems(menuItems, selectedCategories, searchText)]]
    /\ UNCHANGED <<storeVars, clientVars, homeVars, searchText, selectedCategories,
                   filtering, lastFilter, now, timers, typing>>

NextQuery ==
    \/ \E out \in TxOutcomes(0) : QueryStore(out)
    \/ QueryFallback
    \/ QueryFilterItems

SpecQuery == InitQuery /\ [][NextQuery]_vars

(***************************************************************************)
(* SpecFilter: the Home screen once a catalogue is loaded: the category    *)
(* chips, the search text, and the filter effect, each run of which on the *)
(* SQLite-backed screen awaits filterMenuItems; the pending runs form a    *)
(* queue, because the connection runs its transactions in call order.      *)
(***************************************************************************)
MaxPending == 2    \* most runs of the filter effect awaiting filterMenuItems

\* the upstream records as one document, dearest dish first
RECURSIVE ByPrice(_)
ByPrice(records) ==
    IF records = {} THEN <<>>
    ELSE LET top == CHOOSE r \in records : \A q \in records : q.price <= r.price
         IN  <<top>> \o ByPrice(records \ {top})

\* the documents the catalogue on screen was fetched from: every upstream
\* record, and the records that carry a name
FilterPayloads == {ByPrice(RawRecords), ByPrice({r \in RawRecords : Truthy(r.name)})}

\* the search texts that reach setSearchText
FilterTexts == {"", "cake"}

\* a run of the filter effect: the state it closed over and the first
\* argument it handed to filterMenuItems
FilterRun(selected, text, items) ==
    [selected |-> selected, categories |-> CategoriesArgument(selected),
     text |-> text, items |-> items]

FilterRuns ==
    {FilterRun(s, t, processedMenuItems(p)) :
        s \in Selections, t \in FilterTexts, p \in FilterPayloads}

Settled(run, how) ==
    [settled |-> how, selected |-> run.selected, categories |-> run.categories,
     text |-> run.text, items |-> run.items]

\* the state a finished load leaves: the fetched list on screen, the store
\* holding what the save committed or, when the save was rejected, what it
\* held before (nothing, or the table of an earlier fetch), and the effect
\* run that setMenuItems scheduled
InitFilter ==
    /\ screen \in {"database", "memory"}
    /\ dbMode \in {"sqlite", "mock"}
    /\ screen = "memory" => dbMode = "sqlite"
    /\ schema = (dbMode = "sqlite")
    /\ \E p \in FilterPayloads :
          /\ menuItems = processedMenuItems(p)
          /\ menu \in {{}} \cup
                 {saveMenuItems(dbMode, schema, {}, processedMenuItems(q),
                                NoFailure).menu : q \in FilterPayloads}
    /\ call = NoCall
    /\ lastSave = NoSave
    /\ lastGet = NoGet
    /\ pc = "idle"
    /\ fetchFrom = "none"
    /\ processed = <<>>
    /\ filteredMenuItems = menuItems
    /\ availableCategories =
          <<"All">> \o Unique([i \in 1..Len(menuItems) |-> menuItems[i].category])
    /\ isLoading = FALSE
    /\ error = Null
    /\ pass = NoPass
    /\ searchText = ""
    /\ selectedCategories = <<"All">>
    /\ filtering = IF screen = "database"
                   THEN <<FilterRun(selectedCategories, searchText, menuItems)>>
                   ELSE <<>>
    /\ lastFilter = IF screen = "database"
                    THEN NoFilter
                    ELSE Settled(FilterRun(selectedCategories, searchText, menuItems),
                                 "scanned")
    /\ query = NoQuery
    /\ now = 0
    /\ timers = {}
    /\ typing = NoTyping

\* the filter effect after a render with these values of its dependencies
RunFilterEffect(selected, text) ==
    IF menuItems = <<>>
    THEN UNCHANGED <<filtering, filteredMenuItems, lastFilter>>
    ELSE IF screen = "database"
    THEN /\ filtering' = Append(filtering, FilterRun(selected, text, menuItems))
         /\ Len(filtering') <= MaxPending
         /\ UNCHANGED <<filteredMenuItems, lastFilter>>
    ELSE /\ filteredMenuItems' = filterItems(menuItems, selected, text)
         /\ lastFilter' = Settled(FilterRun(selected, text, menuItems), "scanned")
         /\ UNCHANGED filtering

\* the updater without the removal of "All" when a category is pressed
toggleSelection_KeepsAll(prev, category) ==
    IF category = "All" THEN <<"All">>
    ELSE LET Other(cat) == cat # category
         IN  IF category \in Range(prev)
             THEN IF Len(prev) = 1
                  THEN <<"All">>
                  ELSE SelectSeq(prev, Other)
             ELSE Append(prev, category)

\* the updater toggleCategory / handleCategoryPress hands to setSelectedCategories
toggleSelection(prev, category) ==
    IF category = "All" THEN <<"All">>
    ELSE LET Kept(cat) == cat # "All"
             Other(cat) == cat # category
             newSelection == SelectSeq(prev, Kept)
         IN  IF category \in Range(newSelection)
             THEN IF Len(newSelection) = 1
                  THEN <<"All">>
                  ELSE SelectSeq(newSelection, Other)
             ELSE Append(newSelection, category)

\* a press on the chip `category`
toggleCategory(category) ==
    /\ category \in Range(availableCategories)
    /\ selectedCategories' = toggleSelection(selectedCategories, category)
    /\ RunFilterEffect(selectedCategories', searchText)
    /\ UNCHANGED <<storeVars, clientVars, screen, pc, fetchFrom, processed, menuItems,
                   availableCategories, isLoading, error, pass, searchText, query,
                   now, timers, typing>>

\* the debounced callback of the search bar runs with `text`
setSearchText(text) ==
    /\ text # searchText
    /\ searchText' = text
    /\ RunFilterEffect(selectedCategories, searchText')
    /\ UNCHANGED <<storeVars, clientVars, screen, pc, fetchFrom, processed, menuItems,
                   availableCategories, isLoading, error, pass, selectedCategories,
                   query, now, timers, typing>>

\* the await of filterMenuItems in the effect run `run` settles; the
\* transactions of one connection run one after the other, in the order of
\* the db.transaction calls, so the oldest pending run settles first
SettleFilterMenuItems(run, out) ==
    /\ filtering # <<>>
    /\ run = Head(filtering)
    /\ filtering' = Tail(filtering)
    /\ LET r == filterMenuItems(dbMode, schema, menu, run.categories, run.text, out)
           f == fallbackFilter(run.items, run.selected, run.text)
       IN  IF r.settled = "resolved"
           THEN /\ filteredMenuItems' = r.rows
                /\ lastFilter' = Settled(run, "resolved")
           ELSE IF f.threw
           THEN /\ lastFilter' = Settled(run, "threw")
                /\ UNCHANGED filteredMenuItems
           ELSE /\ filteredMenuItems' = f.rows
                /\ lastFilter' = Settled(run, "rejected")
    /\ UNCHANGED <<storeVars, clientVars, screen, pc, fetchFrom, processed, menuItems,
                   availableCategories, isLoading, error, pass, searchText,
                   selectedCategories, query, now, timers, typing>>

NextFilter ==
    \/ \E category \in {"All"} \cup Categories : toggleCategory(category)
    \/ \E text \in FilterTexts : setSearchText(text)
    \/ \E run \in FilterRuns, out \in TxOutcomes(0) : SettleFilterMenuItems(run, out)

SpecFilter == InitFilter /\ [][NextFilter]_vars

(***************************************************************************)
(* SpecDebounce: the search bar.  onChangeText is debouncedSearch, the     *)
(* debounce of (text) => setSearchText(text) with a delay of 500 ms.  The  *)
(* screen has no catalogue yet, so the filter effect returns at once.      *)
(***************************************************************************)
Delay == 500       \* the delay handed to debounce, in ms
TickMs == 50       \* longest stretch of time between two looks at the screen
MaxTime == 700     \* the clock stops here
MaxCalls == 3      \* most calls of debouncedSearch in one burst

\* what the user types
DebounceTexts == {"c", "ca"}

Earliest(S) == CHOOSE t \in S : \A u \in S : t <= u

\* a call of the debounced function that leaves the pending timer running
debounce_NoCancel(pending, at, args) ==
    pending \cup {[due |-> at + Delay, args |-> args]}

\* a call of the debounced function at time `at`: the pending timer is
\* cleared and one timer is set to run the callback with `args` after Delay
debounce(pending, at, args) ==
    {[due |-> at + Delay, args |-> args]}

InitDebounce ==
    /\ dbMode = "sqlite"
    /\ schema = TRUE
    /\ menu = {}
    /\ call = NoCall
    /\ lastSave = NoSave
    /\ lastGet = NoGet
    /\ screen \in {"database", "memory"}
    /\ InitHome

\* onChangeText wired to setSearchText without the debounce
onChangeText_Direct(text) ==
    /\ timers # {} => typing.calls < MaxCalls
    /\ searchText' = text
    /\ typing' = [typing EXCEPT
                    !.calls = IF timers = {} THEN 1 ELSE @ + 1,
                    !.since = IF timers = {} THEN now ELSE @,
                    !.invocations = IF timers = {} THEN 1 ELSE @ + 1,
                    !.lastCall = [at |-> now, args |-> text],
                    !.lastRun = [at |-> now, args |-> text, by |-> "call"]]
    /\ UNCHANGED <<storeVars, clientVars, homeVars, selectedCategories, filtering,
                   lastFilter, query, now, timers>>

\* the search bar reports the text `text`: a call of debouncedSearch
onChangeText(text) ==
    /\ timers # {} => typing.calls < MaxCalls
    /\ timers' = debounce(timers, now, text)
    /\ typing' = [typing EXCEPT
                    !.calls = IF timers = {} THEN 1 ELSE @ + 1,
                    !.since = IF timers = {} THEN now ELSE @,
                    !.invocations = IF timers = {} THEN 0 ELSE @,
                    !.lastCall = [at |-> now, args |-> text]]
    /\ UNCHANGED <<storeVars, clientVars, homeVars, searchText, selectedCategories,
                   filtering, lastFilter, query, now>>

\* a timer comes due and runs the callback (text) => setSearchText(text);
\* menuItems is empty, the filter effect that follows returns at once
TimerFires ==
    /\ menuItems = <<>>
    /\ \E t \in timers :
          /\ t.due = now
          /\ timers' = timers \ {t}
          /\ searchText' = t.args
          /\ typing' = [typing EXCEPT
                          !.invocations = @ + 1,
                          !.lastRun = [at |-> now, args |-> t.args, by |-> "timer"]]
    /\ UNCHANGED <<storeVars, clientVars, homeVars, selectedCategories, filtering,
                   lastFilter, query, now>>

\* time passes, up to the next timer
Tick ==
    /\ now < MaxTime
    /\ now' = Earliest({now + TickMs, MaxTime} \cup {t.due : t \in timers})
    /\ now' > now
    /\ UNCHANGED <<storeVars, clientVars, homeVars, searchText, selectedCategories,
                   filtering, lastFilter, query, timers, typing>>

NextDebounce ==
    \/ \E text \in DebounceTexts : onChangeText(text)
    \/ TimerFires
    \/ Tick

SpecDebounce == InitDebounce /\ [][NextDebounce]_vars

(***************************************************************************)
(* Properties of the load pass (checked under Spec).                       *)
(***************************************************************************)
LoadDone == pass.kind = "load" /\ pass.done

\* what getMenuItems() returns on the store as it is
StoredNow == getMenuItems(dbMode, schema, menu, NoFailure).rows

\* C1: a load pass that found the store populated (hasMenuData true,
\* getMenuItems non-empty) issues no remote fetch and ends with menuItems
\* equal to the stored list.
C1_CacheHitNeverFetches ==
    (pass.kind = "load" /\ pass.cached # <<>>) =>
        /\ pass.fetches = 0
        /\ pass.done => menuItems = pass.cached

C5_SaveFailureAbsorbed ==
    pass.saveSettled = "rejected" =>
        /\ pass.done /\ ~pass.threw /\ ~isLoading
        /\ menuItems = pass.fetched
        /\ (pass.kind = "load" /\ pass.firstFetch = "ok") => error = Null

C5_Witness ==
    /\ pass.saveSettled = "rejected"
    /\ pass.kind = "load" /\ pass.firstFetch = "ok"
    /\ Len(pass.fetched) > 0
    /\ menu # Rows(pass.fetched)

\* C6: a pass in which the remote fetch failed performs no saveMenuItems,
\* leaves the store as it was, and ends with the error set and no catalogue
\* taken from the remote source.
C6_FetchFailureNoWrite ==
    pass.firstFetch = "failed" =>
        /\ pass.saves = 0
        /\ menu = pass.storeAtStart
        /\ pass.done => (error = LoadError /\ pass.fetched = <<>>)

\* C7: one pass issues the remote fetch at most once.
C7_AtMostOneFetch == pass.fetches <= 1

\* C8: a load pass in which initDatabase, hasMenuData or getMenuItems failed
\* (hasMenuData fails on the mock connection), or getMenuItems returned an
\* empty list, goes on to the remote fetch, and ends as that fetch ends: with
\* its items in menuItems and no error, or with the error set.
C8_StorageDegradesToRemote ==
    (pass.kind = "load" /\ pass.degraded # "no") =>
        /\ pass.fetches >= 1
        /\ pc \in {"fetch", "saveMenuItems", "idle"}
        /\ pass.done =>
              \/ /\ pass.lastFetch = "ok"
                 /\ menuItems = pass.fetched
                 /\ error = Null
                 /\ ~pass.threw
              \/ /\ pass.lastFetch = "failed"
                 /\ menuItems = <<>>
                 /\ error = LoadError
                 /\ pass.threw

C8_Witness ==
    /\ LoadDone
    /\ dbMode = "mock"
    /\ pass.degraded = "hasMenuData"
    /\ pass.lastFetch = "ok"
    /\ Len(menuItems) = 2

(***************************************************************************)
(* Properties of the database module (checked under SpecStore).            *)
(***************************************************************************)
ValidItem(item) ==
    /\ Truthy(item.name)
    /\ item.description # Undefined /\ item.description # Null
    /\ item.price >= 0
    /\ item.image # Undefined
    /\ Truthy(item.category)

ValidList(items) ==
    /\ \A i \in 1..Len(items) : ValidItem(items[i])
    /\ \A i, j \in 1..Len(items) : items[i].id = items[j].id => i = j

\* C3: once a saveMenuItems(items) transaction has ended, the table holds
\* all rows of items or none of them.
C3_SaveAllOrNothing ==
    lastSave.done =>
        \/ Rows(lastSave.items) \subseteq menu
        \/ Rows(lastSave.items) \cap menu = {}

\* C4: when saveMenuItems rejects, the table holds the rows it held before
\* the call.
C4_RejectedSaveKeepsStore ==
    (lastSave.done /\ lastSave.settled = "rejected") => menu = lastSave.before

C11_FallbackEquivalence ==
    /\ (query.store.settled = "resolved" /\ query.fallback.settled = "returned")
            => Range(query.fallback.rows) = Range(query.store.rows)
    /\ (query.store.settled = "resolved" /\ query.scan.settled = "returned")
            => Range(query.scan.rows) = Range(query.store.rows)

\* the items the store filter is specified to return, in table order
StoreMatches(table, categories, text) ==
    {r \in table :
        /\ Len(categories) > 0 => r.category \in Range(categories)
        /\ trim(text) # "" => includes(toLowerCase(r.name), toLowerCase(text))}

\* C12: filterMenuItems returns exactly the persisted items whose category is
\* among the categories (any category when there are none) and whose name
\* contains the search text without regard to case (any name when the text is
\* blank), ordered by name ascending
C12_StoreFilterSemantics ==
    query.store.settled = "resolved" =>
        /\ Range(query.store.rows)
              = StoreMatches(menu, CategoriesArgument(selectedCategories), searchText)
        /\ Len(query.store.rows) = Cardinality(Range(query.store.rows))
        /\ \A i, j \in 1..Len(query.store.rows) :
              i < j => ~Before(query.store.rows[j].name, query.store.rows[i].name)

(***************************************************************************)
(* Properties of the filter effect (checked under SpecFilter).             *)
(***************************************************************************)
\* the items of a list that match a selection and a search text
MemoryMatches(items, selected, text) ==
    LET Matches(item) ==
            /\ text # "" =>
                  \/ Truthy(item.name)
                        /\ includes(toLowerCase(item.name), toLowerCase(text))
                  \/ Truthy(item.description)
                        /\ includes(toLowerCase(item.description), toLowerCase(text))
            /\ (selected # <<>> /\ "All" \notin Range(selected)) =>
                  item.category \in Range(selected)
    IN  SelectSeq(items, Matches)

\* C13: when the filterMenuItems call of a filter run rejects, the run ends
\* with filteredMenuItems holding the in-memory matches of its menuItems for
\* its criteria, and error stays unset
C13_FilterFailureFallsBack ==
    lastFilter.settled \in {"rejected", "threw"} =>
        /\ filteredMenuItems
              = MemoryMatches(lastFilter.items, lastFilter.selected, lastFilter.text)
        /\ error = Null

\* C14: the category list a filter run matches against never holds "All",
\* and a run started with "All" selected restricts no category
C14_AllSentinel ==
    /\ \A run \in Range(filtering) :
          /\ "All" \notin Range(run.categories)
          /\ "All" \in Range(run.selected) => run.categories = <<>>
    /\ "All" \notin Range(lastFilter.categories)
    /\ "All" \in Range(lastFilter.selected) =>
          /\ lastFilter.categories = <<>>
          /\ lastFilter.settled = "resolved" =>
                filteredMenuItems = filterMenuItems(dbMode, schema, menu, <<>>,
                                                    lastFilter.text, NoFailure).rows
          /\ lastFilter.settled \in {"rejected", "scanned"} =>
                filteredMenuItems = MemoryMatches(lastFilter.items, <<>>, lastFilter.text)

C14_Witness ==
    /\ lastFilter.settled = "resolved"
    /\ "All" \in Range(lastFilter.selected)
    /\ Cardinality({filteredMenuItems[i].category : i \in 1..Len(filteredMenuItems)}) > 1
    /\ \E run \in Range(filtering) : run.categories # <<>>

(***************************************************************************)
(* Properties of the search bar (checked under SpecDebounce).              *)
(***************************************************************************)
\* C15: a burst of calls, each made while the timer of the one before is
\* pending, leads to exactly one invocation of the callback, Delay after the
\* last call of the burst and with the arguments of that call
C15_DebounceCollapse ==
    /\ typing.invocations <= 1
    /\ (typing.calls > 0 /\ timers # {}) =>
          /\ typing.invocations = 0
          /\ now <= typing.lastCall.at + Delay
    /\ (typing.calls > 0 /\ timers = {}) =>
          /\ typing.invocations = 1
          /\ typing.lastRun.at = typing.lastCall.at + Delay
          /\ typing.lastRun.args = typing.lastCall.args
          /\ searchText = typing.lastCall.args

\* calls at 0, 100 and 150 ms: one invocation, at 650 ms, with the third text
C15_Witness ==
    /\ typing.calls = 3
    /\ typing.since = 0
    /\ typing.lastCall = [at |-> 150, args |-> "ca"]
    /\ typing.invocations = 1
    /\ typing.lastRun = [at |-> 650, args |-> "ca", by |-> "timer"]
    /\ searchText = "ca"

\* C16: a call of the debounced function never runs the callback itself, it
\* replaces the pending timer, and at most one timer is pending
C16_TrailingEdgeSingleTimer ==
    /\ Cardinality(timers) <= 1
    /\ \A t \in timers :
          t = [due |-> typing.lastCall.at + Delay, args |-> typing.lastCall.args]
    /\ typing.lastRun.by # "call"
    /\ typing.invocations > 0 => typing.lastRun.at >= typing.since + Delay

\* a second call arrived while the timer of the first was pending
C16_Witness ==
    /\ typing.calls = 2
    /\ typing.lastCall.at > typing.since
    /\ typing.lastCall.at < typing.since + Delay
    /\ Cardinality(timers) = 1
    /\ typing.invocations = 0

(***************************************************************************)
(* Properties of the load and retry passes (checked under Spec).           *)
(***************************************************************************)
\* C17: at most one load / retry pass and at most one saveMenuItems call
\* are in flight
C17_SingleWriter ==
    /\ pass.inFlight <= 1
    /\ pass.savesInFlight <= 1
    /\ pass.inFlight = 0 <=> pc \in {"mount", "idle"}
    /\ pass.savesInFlight = 1 <=> pc = "saveMenuItems"

\* a retry pass awaiting its saveMenuItems
C17_Witness ==
    /\ pass.kind = "retry"
    /\ pc = "saveMenuItems"
    /\ pass.inFlight = 1
    /\ pass.savesInFlight = 1

\* C18: once a load or retry pass has ended in failure the Retry button is
\* there to press (not loading, error shown), and a retry pass whose fetch
\* succeeded ends with the fetched catalogue in menuItems
C18_RetryAlwaysPossible ==
    /\ (pass.done /\ pass.lastFetch = "failed") =>
          /\ ~isLoading
          /\ error = LoadError
          /\ ENABLED Retry
    /\ (pass.kind = "retry" /\ pass.done /\ pass.lastFetch = "ok") =>
          menuItems = pass.fetched

\* a retry pass after a failure has put a fetched catalogue in menuItems
C18_Witness ==
    /\ pass.kind = "retry"
    /\ pass.done
    /\ pass.lastFetch = "ok"
    /\ menuItems = pass.fetched
    /\ menuItems # <<>>

\* C19: after a successful fetch the items of the normalized list have
\* pairwise distinct integer ids, and so have the rows of the table
C19_UniqueIds ==
    /\ pass.lastFetch = "ok" =>
          /\ \A i \in 1..Len(pass.fetched) : pass.fetched[i].id \in Int
          /\ \A i, j \in 1..Len(pass.fetched) :
                pass.fetched[i].id = pass.fetched[j].id => i = j
          /\ pc = "saveMenuItems" => processed = pass.fetched
          /\ (pass.done /\ ~pass.threw) => menuItems = pass.fetched
    /\ \A r, q \in menu : r.id = q.id => r = q

\* a fetched list of two items whose upstream ids were equal has been saved
C19_Witness ==
    /\ pass.done
    /\ pass.lastFetch = "ok"
    /\ pass.saveSettled = "resolved"
    /\ Len(pass.fetched) > 1
    /\ \A i \in 1..Len(pass.raw) : "id" \in DOMAIN pass.raw[i]
    /\ Cardinality(menu) = Len(pass.fetched)

\* is the upstream id of record i of the document there, and unlike that of
\* every other record
UpstreamIdUnique(raw, i) ==
    /\ "id" \in DOMAIN raw[i]
    /\ \A j \in 1..Len(raw) :
          (j # i /\ "id" \in DOMAIN raw[j]) => raw[j].id # raw[i].id

\* C20 as stated: a record whose upstream id is present and unique keeps it,
\* every other record gets its 1-based position
C20_IdAssignmentConditional ==
    pass.lastFetch = "ok" =>
        \A i \in 1..Len(pass.fetched) :
            pass.fetched[i].id = IF UpstreamIdUnique(pass.raw, i)
                                 THEN pass.raw[i].id
                                 ELSE i

\* C20: normalization gives every record its 1-based position as id, whether
\* or not the upstream record carries an id
C20_IdAssignmentByPosition ==
    pass.lastFetch = "ok" =>
        /\ Len(pass.fetched) = Len(pass.raw)
        /\ \A i \in 1..Len(pass.fetched) : pass.fetched[i].id = i

\* a fetched record came with an id of its own, unlike any other, and lost it
C20_Witness ==
    /\ pass.lastFetch = "ok"
    /\ \E i \in 1..Len(pass.raw) :
          /\ UpstreamIdUnique(pass.raw, i)
          /\ pass.fetched[i].id # pass.raw[i].id

\* C21: every normalized item has a non-empty category, the upstream one
\* when that is present and non-empty and "Other" otherwise; so has every
\* item of menuItems once a pass has put a fetched list there
C21_CategoryNeverEmpty ==
    pass.lastFetch = "ok" =>
        /\ Len(pass.fetched) = Len(pass.raw)
        /\ \A i \in 1..Len(pass.fetched) :
              /\ pass.fetched[i].category \notin {Undefined, Null, ""}
              /\ pass.fetched[i].category =
                    IF pass.raw[i].category \in {Undefined, Null, ""}
                    THEN "Other"
                    ELSE pass.raw[i].category
        /\ pass.done =>
              \A i \in 1..Len(menuItems) :
                  menuItems[i].category \notin {Undefined, Null, ""}

\* a document with a category, an empty category and no category is on screen
C21_Witness ==
    /\ pass.done
    /\ pass.lastFetch = "ok"
    /\ menuItems = pass.fetched
    /\ \E i, j \in 1..Len(pass.raw) :
          /\ pass.raw[i].category \in {Undefined, ""}
          /\ menuItems[i].category = "Other"
          /\ pass.raw[j].category = "starters"
          /\ menuItems[j].category = "starters"

\* C22: a fetch that succeeds yields one normalized item per record of the
\* menu array, in the order of the array; a fetch that fails leaves
\* menuItems, filteredMenuItems and availableCategories as they were
C22_NoPartialResults ==
    [][ /\ (pc = "fetch" /\ pass'.lastFetch = "ok") =>
              /\ Len(pass'.fetched) = Len(pass'.raw)
              /\ \A i \in 1..Len(pass'.raw) :
                    pass'.fetched[i] = processItem(pass'.raw[i], i - 1)
        /\ (~pass.done /\ pass'.done /\ pass'.lastFetch = "ok") =>
              menuItems' = pass'.fetched
        /\ (pc = "fetch" /\ pass'.fetches >= pass.fetches
                         /\ pass'.lastFetch = "failed") =>
              UNCHANGED <<menuItems, filteredMenuItems, availableCategories>>
      ]_vars

\* a fetch has failed while a catalogue was on screen, and the catalogue is
\* still there
C22_Witness ==
    /\ pass.done
    /\ pass.lastFetch = "failed"
    /\ menuItems # <<>>
    /\ filteredMenuItems = menuItems
    /\ Len(availableCategories) > 1

\* C23: once a load or a retry has ended with a successful fetch and loading
\* has finished, error is null, so that the list is what the screen renders
C23_SuccessClearsError ==
    (pass.done /\ ~isLoading /\ pass.lastFetch = "ok") => error = Null

\* C30: a load pass whose getMenuItems returned a non-empty list and whose
\* getCategories then failed issues no remote fetch and does not rewrite the
\* store
C30_CategoriesFailureKeepsStore ==
    (pass.kind = "load" /\ pass.categoriesFailed) =>
        /\ pass.cached # <<>>
        /\ pass.fetches = 0
        /\ pass.saves = 0
        /\ menu = pass.storeAtStart

\* C28: after a load or retry that succeeded, from the store or from the
\* network, availableCategories is "All" followed by the distinct categories
\* of menuItems, each of them once
C28_ChipsMatchCatalogue ==
    ( /\ pass.done
      /\ \/ pass.lastFetch = "ok"
         \/ pass.kind = "load" /\ pass.cached # <<>> /\ pass.fetches = 0 ) =>
        /\ Len(availableCategories) >= 1
        /\ availableCategories[1] = "All"
        /\ \A i, j \in 2..Len(availableCategories) :
              availableCategories[i] = availableCategories[j] => i = j
        /\ {availableCategories[i] : i \in 2..Len(availableCategories)} =
              {menuItems[i].category : i \in 1..Len(menuItems)}

\* a load served from the store has ended with two items of one category on
\* screen
C28_Witness ==
    /\ pass.done
    /\ pass.kind = "load" /\ pass.cached # <<>> /\ pass.fetches = 0
    /\ Len(menuItems) = 2
    /\ menuItems[1].category = menuItems[2].category
    /\ Len(availableCategories) = 2

\* the running pass has ended, loading is over, and menuItems holds what the
\* pass loaded from the store or from the network, or error is set
Terminated ==
    /\ pass.done
    /\ ~isLoading
    /\ \/ error # Null
       \/ pass.lastFetch = "ok" /\ menuItems = pass.fetched
       \/ pass.cached # <<>> /\ menuItems = pass.cached

\* C29: when every storage and network call eventually settles, every load
\* and every retry eventually ends with isLoading false and with either a
\* loaded catalogue in menuItems or error set
C29_LoadTerminates ==
    (~pass.done) ~> Terminated

\* a retry has ended after a load that had ended with an error
C29_Witness ==
    /\ pass.kind = "retry"
    /\ Terminated
    /\ pass.lastFetch = "ok"
    /\ menuItems # <<>>

\* C24: every item of filteredMenuItems is an item of the current menuItems
C24_FilteredViewSound ==
    \A i \in 1..Len(filteredMenuItems) :
        filteredMenuItems[i] \in Range(menuItems)

\* C25: once a filter run over a non-empty catalogue has completed,
\* filteredMenuItems contains every item of menuItems that matches the
\* criteria of the run: the whole catalogue for "All" and an empty text
C25_FilteredViewComplete ==
    ( /\ lastFilter.settled \in {"resolved", "rejected", "scanned"}
      /\ lastFilter.items = menuItems
      /\ menuItems # <<>> ) =>
        Range(MemoryMatches(menuItems, lastFilter.selected, lastFilter.text))
            \subseteq Range(filteredMenuItems)

\* C26: once no run of the filter effect is pending, filteredMenuItems is the
\* result of the run for the current searchText and selectedCategories
C26_NoStaleFilterResult ==
    (screen = "database" /\ menuItems # <<>> /\ filtering = <<>>) =>
        /\ lastFilter.selected = selectedCategories
        /\ lastFilter.text = searchText
        /\ lastFilter.settled \in {"resolved", "rejected"}

\* C27: after any sequence of presses on the category chips,
\* selectedCategories is non-empty, holds no category twice, and holds "All"
\* only as its single element; a press on "All" gives <<"All">>, and so does
\* a press on the only selected category
C27_SelectionInvariant ==
    /\ Len(selectedCategories) >= 1
    /\ \A i, j \in 1..Len(selectedCategories) :
          selectedCategories[i] = selectedCategories[j] => i = j
    /\ "All" \in Range(selectedCategories) => selectedCategories = <<"All">>
    /\ toggleSelection(selectedCategories, "All") = <<"All">>
    /\ \A c \in Range(availableCategories) :
          selectedCategories = <<c>> =>
              toggleSelection(selectedCategories, c) = <<"All">>

\* two categories are selected, the second one pressed after the first
C27_Witness ==
    /\ Len(selectedCategories) = 2
    /\ "All" \notin Range(selectedCategories)
    /\ lastFilter.selected = selectedCategories

====
